---- MODULE Spec2Model ----
(***************************************************************************)
(* Bucket-copy xaction (package mirror): XactBckCopy.Run, runJoggers and   *)
(* the per-mountpath bccJogger with its per-object callback copyObject.    *)
(* The job base (xactBckBase.waitDone, XactBase.Finish/ObjectsInc/BytesAdd)*)
(* and the walking base jogger (joggerBckBase.jog) are not part of the     *)
(* source subset; they are modelled from their documented contracts.       *)
(***************************************************************************)
EXTENDS Integers, Sequences, FiniteSets, TLC

\* ------------------------------------------------------------------ bounds
MaxMpaths == 2            \* mountpaths that can ever be configured
MaxObjs == 2              \* objects a jogger can count on its mountpath
MaxSize == 2              \* largest object size (lom.Size())
throttleNumObjects == 2   \* capacity-check interval, in counted objects
MaxGens == 2              \* FQNs generated and kept on disk

Mpaths == 1..MaxMpaths
Sizes == 1..MaxSize
IDs == {"x1"}

\* ------------------------------------------------------------------ errors
Kind == "copybck"         \* cmn.ActCopyBucket, passed to newXactBckBase

Nil == [type |-> "nil", what |-> <<>>, cause |-> "none"]
ErrOOS == [type |-> "oos", what |-> <<>>, cause |-> "none"]
ErrOther == [type |-> "other", what |-> <<>>, cause |-> "none"]
CopyErrs == {Nil, ErrOOS, ErrOther}

\* cmn.IsErrOOS(err)
IsErrOOS(err) == err.type = "oos"

\* cmn.NewAbortedErrorDetails(what, details)
NewAbortedErrorDetails(what, details) ==
    [type |-> "aborted", what |-> what, cause |-> details]

\* mutant: the job id is left out of the error's context
What_kindOnly(kind, jobID) == <<kind, "">>

\* fmt.Sprintf("%s(%q)", j.parent.Kind(), j.parent.ID())
What(kind, jobID) == <<kind, jobID>>

\* ------------------------------------------------------- content registry
contentTypeLen == 2
Separator == "/"          \* filepath.Separator

\* content types are strings, kept as sequences of characters
ObjectType == <<"o", "b">>
WorkfileType == <<"w", "k">>
ECSliceType == <<"e", "c">>
ECMetaType == <<"m", "t">>

\* the content types Reg is called with: the four of the source, and tags
\* that are too short, too long, empty, or hold the separator
ContentTypes ==
    {ObjectType, WorkfileType, ECSliceType, ECMetaType,
     <<"o">>, <<"o", "b", "j">>, <<>>,
     <<"/", "b">>, <<"o", "/", "b">>, <<"/">>}

Resolvers ==
    {"ObjectContentResolver", "WorkfileContentResolver",
     "ECSliceContentResolver", "ECMetaContentResolver"}

\* strings.ContainsRune(s, r)
ContainsRune(s, r) == \E i \in 1..Len(s) : s[i] = r

\* fmt.Errorf(...) of Reg: the three messages differ in their cause
RegError(contentType, cause) ==
    [type |-> "reg", what |-> contentType, cause |-> cause]

\* a map without entries
EmptyRegistry == [t \in {} |-> "none"]

\* f.m[contentType] = spec
MapSet(m, contentType, spec) ==
    [t \in DOMAIN m \cup {contentType} |->
        IF t = contentType THEN spec ELSE m[t]]

NoReg == [contentType |-> <<>>, spec |-> "none"]

\* contentSpecMgr.Resolver(contentType): r := f.m[contentType], which is nil
\* for a key the map does not hold
Resolver(m, contentType) ==
    IF contentType \in DOMAIN m THEN m[contentType] ELSE "nil"

\* ----------------------------------------------------------------- strings
\* strings are sequences of characters; indexes are Go's (from 0)
\* s[lo:hi]
Slice(s, lo, hi) == SubSeq(s, lo + 1, hi)

\* strings.Index(s, c) for a one-character c
Index(s, c) ==
    IF \E i \in 1..Len(s) : s[i] = c
        THEN (CHOOSE i \in 1..Len(s) :
                 s[i] = c /\ \A j \in 1..(i - 1) : s[j] # c) - 1
        ELSE -1

\* strings.LastIndex(s, c) for a one-character c
LastIndex(s, c) ==
    IF \E i \in 1..Len(s) : s[i] = c
        THEN (CHOOSE i \in 1..Len(s) :
                 s[i] = c /\ \A j \in (i + 1)..Len(s) : s[j] # c) - 1
        ELSE -1

\* strings.HasSuffix(s, suffix)
HasSuffix(s, suffix) ==
    /\ Len(s) >= Len(suffix)
    /\ SubSeq(s, Len(s) - Len(suffix) + 1, Len(s)) = suffix

\* strings.HasPrefix(s, prefix)
HasPrefix(s, prefix) ==
    /\ Len(s) >= Len(prefix)
    /\ SubSeq(s, 1, Len(prefix)) = prefix

\* filepath.Split(path): the split is right after the last separator
Split(path) ==
    LET i == LastIndex(path, Separator)
    IN  [dir |-> Slice(path, 0, i + 1), file |-> Slice(path, i + 1, Len(path))]

RECURSIVE Squeeze(_)
\* filepath.Clean, the part that replaces runs of separators by one
Squeeze(s) ==
    IF Len(s) < 2 THEN s
    ELSE IF s[1] = Separator /\ s[2] = Separator THEN Squeeze(Tail(s))
    ELSE <<s[1]>> \o Squeeze(Tail(s))

\* filepath.Clean for paths without "." and ".." elements: one separator
\* between elements and none at the end
Clean(s) ==
    LET q == Squeeze(s)
    IN  IF Len(q) > 1 /\ q[Len(q)] = Separator
            THEN SubSeq(q, 1, Len(q) - 1)
            ELSE q

\* filepath.Join(dir, file): empty elements are ignored, the result is
\* cleaned
Join(dir, file) ==
    IF dir = <<>> THEN Clean(file)
    ELSE IF file = <<>> THEN Clean(dir)
    ELSE Clean(dir \o <<Separator>> \o file)

HexLower == <<"0", "1", "2", "3", "4", "5", "6", "7", "8", "9",
              "a", "b", "c", "d", "e", "f">>
HexUpper == <<"0", "1", "2", "3", "4", "5", "6", "7", "8", "9",
              "A", "B", "C", "D", "E", "F">>

RECURSIVE FormatHex(_)
\* strconv.FormatInt(n, 16) for n >= 0
FormatHex(n) ==
    IF n < 16 THEN <<HexLower[n + 1]>>
    ELSE FormatHex(n \div 16) \o <<HexLower[(n % 16) + 1]>>

IsHexDigit(c) == \E i \in 1..16 : HexLower[i] = c \/ HexUpper[i] = c

HexValue(c) ==
    (CHOOSE i \in 1..16 : HexLower[i] = c \/ HexUpper[i] = c) - 1

RECURSIVE HexNumber(_)
HexNumber(s) ==
    IF s = <<>> THEN 0
    ELSE 16 * HexNumber(SubSeq(s, 1, Len(s) - 1)) + HexValue(s[Len(s)])

\* mutant: what is not a number parses as zero
ParseInt_lenient(s) ==
    LET signed == Len(s) > 0 /\ s[1] \in {"+", "-"}
        digits == IF signed THEN Tail(s) ELSE s
    IN  IF digits = <<>> \/ \E i \in 1..Len(digits) : ~IsHexDigit(digits[i])
            THEN [err |-> FALSE, val |-> 0]
            ELSE [err |-> FALSE,
                  val |-> IF signed /\ s[1] = "-"
                              THEN 0 - HexNumber(digits)
                              ELSE HexNumber(digits)]

\* strconv.ParseInt(s, 16, 64) for numbers within 64 bits: an optional
\* sign, then one or more hexadecimal digits
ParseInt(s) ==
    LET signed == Len(s) > 0 /\ s[1] \in {"+", "-"}
        digits == IF signed THEN Tail(s) ELSE s
    IN  IF digits = <<>> \/ \E i \in 1..Len(digits) : ~IsHexDigit(digits[i])
            THEN [err |-> TRUE, val |-> 0]
            ELSE [err |-> FALSE,
                  val |-> IF signed /\ s[1] = "-"
                              THEN 0 - HexNumber(digits)
                              ELSE HexNumber(digits)]

\* ------------------------------------------------------ content resolvers
\* mutant: every content may be moved
SpecPermToMove_all(spec) == TRUE

\* spec.PermToMove()
SpecPermToMove(spec) == spec # "WorkfileContentResolver"

\* spec.PermToEvict()
SpecPermToEvict(spec) == TRUE

\* spec.PermToProcess()
SpecPermToProcess(spec) == spec = "ObjectContentResolver"

\* spid: the process id as the workfile names carry it
Spid(pid) == FormatHex(pid)

\* mutant: the workfile name carries no tie-breaker
GenUniqueFQN_noTie(spec, base, prefix, tieBreaker, spid) ==
    IF spec = "WorkfileContentResolver"
        THEN LET sp == Split(base)
                 fname == prefix \o <<".">> \o sp.file
             IN  Join(sp.dir, fname) \o <<".">> \o <<"t">> \o <<".">> \o spid
        ELSE base

\* spec.GenUniqueFQN(base, prefix), with the tie-breaker cos.GenTie()
\* returned and the process id of the caller
GenUniqueFQN(spec, base, prefix, tieBreaker, spid) ==
    IF spec = "WorkfileContentResolver"
        THEN LET sp == Split(base)
                 fname == prefix \o <<".">> \o sp.file
             IN  Join(sp.dir, fname) \o <<".">> \o tieBreaker \o <<".">> \o spid
        ELSE base

ParseFailed == [orig |-> <<>>, old |-> FALSE, ok |-> FALSE]

\* mutant: the tie-breaker is left in the name
WorkfileParseUniqueFQN_keepTie(base0, pid) ==
    LET cntIndex == Index(base0, ".")
    IN  IF cntIndex < 0 THEN ParseFailed
        ELSE
        LET base == Slice(base0, cntIndex + 1, Len(base0))
            pidIndex == LastIndex(base, ".")
        IN  IF pidIndex < 0 THEN ParseFailed
            ELSE
            LET tieIndex == LastIndex(Slice(base, 0, pidIndex), ".")
            IN  IF tieIndex < 0 THEN ParseFailed
                ELSE
                LET filePID == ParseInt(Slice(base, pidIndex + 1, Len(base)))
                IN  IF filePID.err THEN ParseFailed
                    ELSE [orig |-> Slice(base, 0, pidIndex),
                          old |-> filePID.val # pid,
                          ok |-> TRUE]

\* mutant: the process id of the name is compared as a string of decimal
\* digits would be, so that it never equals the reader's
WorkfileParseUniqueFQN_alwaysOld(base0, pid) ==
    LET cntIndex == Index(base0, ".")
    IN  IF cntIndex < 0 THEN ParseFailed
        ELSE
        LET base == Slice(base0, cntIndex + 1, Len(base0))
            pidIndex == LastIndex(base, ".")
        IN  IF pidIndex < 0 THEN ParseFailed
            ELSE
            LET tieIndex == LastIndex(Slice(base, 0, pidIndex), ".")
            IN  IF tieIndex < 0 THEN ParseFailed
                ELSE
                LET filePID == ParseInt(Slice(base, pidIndex + 1, Len(base)))
                IN  IF filePID.err THEN ParseFailed
                    ELSE [orig |-> Slice(base, 0, tieIndex),
                          old |-> TRUE,
                          ok |-> TRUE]

\* (*WorkfileContentResolver).ParseUniqueFQN(base), read by process pid
WorkfileParseUniqueFQN(base0, pid) ==
    LET cntIndex == Index(base0, ".")
    IN  IF cntIndex < 0 THEN ParseFailed
        ELSE
        LET base == Slice(base0, cntIndex + 1, Len(base0))
            pidIndex == LastIndex(base, ".")
        IN  IF pidIndex < 0 THEN ParseFailed
            ELSE
            LET tieIndex == LastIndex(Slice(base, 0, pidIndex), ".")
            IN  IF tieIndex < 0 THEN ParseFailed
                ELSE
                LET filePID == ParseInt(Slice(base, pidIndex + 1, Len(base)))
                IN  IF filePID.err THEN ParseFailed
                    ELSE [orig |-> Slice(base, 0, tieIndex),
                          old |-> filePID.val # pid,
                          ok |-> TRUE]

\* spec.ParseUniqueFQN(base), read by process pid
ParseUniqueFQN(spec, base, pid) ==
    IF spec = "WorkfileContentResolver"
        THEN WorkfileParseUniqueFQN(base, pid)
        ELSE [orig |-> base, old |-> FALSE, ok |-> TRUE]

\* --------------------------------------------------------------- FQN codec
\* the root directories of the mountpaths
Roots == {<<"/", "m">>}

\* Mountpath.MakePathFQN(bck, contentType, objName): the root, the bucket,
\* the content type and the name, one path element after the other
MakePathFQN(root, bck, contentType, objName) ==
    root \o <<Separator>> \o bck \o <<Separator>> \o contentType
         \o <<Separator>> \o objName

ParseFQNError == [err |-> TRUE, Bucket |-> <<>>, ContentType |-> <<>>,
                  ObjName |-> <<>>]

\* ParseFQN(fqn): the inverse of MakePathFQN; an error for a path that is
\* not under a mountpath or lacks a bucket, a content type of the right
\* length, or a name
ParseFQN(fqn) ==
    IF ~\E root \in Roots : HasPrefix(fqn, root \o <<Separator>>)
        THEN ParseFQNError
    ELSE
    LET root == CHOOSE r \in Roots : HasPrefix(fqn, r \o <<Separator>>)
        rest1 == Slice(fqn, Len(root) + 1, Len(fqn))
        i == Index(rest1, Separator)
    IN  IF i < 1 THEN ParseFQNError
        ELSE
        LET rest2 == Slice(rest1, i + 1, Len(rest1))
            j == Index(rest2, Separator)
        IN  IF j # contentTypeLen \/ j + 1 >= Len(rest2) THEN ParseFQNError
            ELSE [err |-> FALSE,
                  Bucket |-> Slice(rest1, 0, i),
                  ContentType |-> Slice(rest2, 0, j),
                  ObjName |-> Slice(rest2, j + 1, Len(rest2))]

\* the result of Gen: an FQN, or the runtime panic of a call on a nil resolver
GenPanic == [panic |-> TRUE, fqn |-> <<>>]

\* mutant: a content type without a resolver gets the name as it is
Gen_default(m, parts, contentType, prefix, tieBreaker, spid) ==
    LET spec == Resolver(m, contentType)
        objName == GenUniqueFQN(spec, parts.ObjectName, prefix, tieBreaker,
                                spid)
    IN  [panic |-> FALSE,
         fqn |-> MakePathFQN(parts.Mountpath, parts.Bucket, contentType,
                             objName)]

\* contentSpecMgr.Gen(parts, contentType, prefix)
Gen(m, parts, contentType, prefix, tieBreaker, spid) ==
    LET spec == Resolver(m, contentType)
    IN  IF spec = "nil" THEN GenPanic
        ELSE LET objName == GenUniqueFQN(spec, parts.ObjectName, prefix,
                                         tieBreaker, spid)
             IN  [panic |-> FALSE,
                  fqn |-> MakePathFQN(parts.Mountpath, parts.Bucket,
                                      contentType, objName)]

NilInfo == [nil |-> TRUE, Dir |-> <<>>, Base |-> <<>>, Old |-> FALSE,
            Type |-> <<>>]
NoSpec == [resolver |-> "nil", info |-> NilInfo]

\* mutant: a path without a directory is taken for an object of that name
FileSpec_lenient(m, fqn, pid) ==
    LET sp == Split(fqn)
    IN  IF sp.file = <<>> THEN NoSpec
        ELSE IF ~HasSuffix(sp.dir, <<"/">>)
            THEN [resolver |-> "ObjectContentResolver",
                  info |-> [nil |-> FALSE, Dir |-> sp.dir, Base |-> sp.file,
                            Old |-> FALSE, Type |-> ObjectType]]
        ELSE
        LET parsedFQN == ParseFQN(fqn)
        IN  IF parsedFQN.err THEN NoSpec
            ELSE IF parsedFQN.ContentType \notin DOMAIN m THEN NoSpec
            ELSE
            LET spec == m[parsedFQN.ContentType]
                u == ParseUniqueFQN(spec, sp.file, pid)
            IN  IF ~u.ok THEN NoSpec
                ELSE [resolver |-> spec,
                      info |-> [nil |-> FALSE, Dir |-> sp.dir,
                                Base |-> u.orig, Old |-> u.old,
                                Type |-> parsedFQN.ContentType]]

\* mutant: the resolver is returned although its parser rejected the name
FileSpec_resolverOnly(m, fqn, pid) ==
    LET sp == Split(fqn)
    IN  IF ~HasSuffix(sp.dir, <<"/">>) \/ sp.file = <<>> THEN NoSpec
        ELSE
        LET parsedFQN == ParseFQN(fqn)
        IN  IF parsedFQN.err THEN NoSpec
            ELSE IF parsedFQN.ContentType \notin DOMAIN m THEN NoSpec
            ELSE
            LET spec == m[parsedFQN.ContentType]
                u == ParseUniqueFQN(spec, sp.file, pid)
            IN  IF ~u.ok THEN [resolver |-> spec, info |-> NilInfo]
                ELSE [resolver |-> spec,
                      info |-> [nil |-> FALSE, Dir |-> sp.dir,
                                Base |-> u.orig, Old |-> u.old,
                                Type |-> parsedFQN.ContentType]]

\* contentSpecMgr.FileSpec(fqn), called in process pid
FileSpec(m, fqn, pid) ==
    LET sp == Split(fqn)
    IN  IF ~HasSuffix(sp.dir, <<"/">>) \/ sp.file = <<>> THEN NoSpec
        ELSE
        LET parsedFQN == ParseFQN(fqn)
        IN  IF parsedFQN.err THEN NoSpec
            ELSE IF parsedFQN.ContentType \notin DOMAIN m THEN NoSpec
            ELSE
            LET spec == m[parsedFQN.ContentType]
                u == ParseUniqueFQN(spec, sp.file, pid)
            IN  IF ~u.ok THEN NoSpec
                ELSE [resolver |-> spec,
                      info |-> [nil |-> FALSE, Dir |-> sp.dir,
                                Base |-> u.orig, Old |-> u.old,
                                Type |-> parsedFQN.ContentType]]

\* mutant: what FileSpec does not know may not be evicted
PermToEvict_denyUnknown(m, fqn, pid) ==
    LET fs == FileSpec(m, fqn, pid)
    IN  IF fs.resolver = "nil"
            THEN [panic |-> FALSE, ok |-> FALSE, isOld |-> FALSE]
        ELSE IF fs.info.nil
            THEN [panic |-> TRUE, ok |-> FALSE, isOld |-> FALSE]
        ELSE [panic |-> FALSE, ok |-> SpecPermToEvict(fs.resolver),
              isOld |-> fs.info.Old]

\* mutant: the evict query never reports a file as old
PermToEvict_neverOld(m, fqn, pid) ==
    LET fs == FileSpec(m, fqn, pid)
    IN  IF fs.resolver = "nil"
            THEN [panic |-> FALSE, ok |-> TRUE, isOld |-> FALSE]
        ELSE IF fs.info.nil
            THEN [panic |-> TRUE, ok |-> FALSE, isOld |-> FALSE]
        ELSE [panic |-> FALSE, ok |-> SpecPermToEvict(fs.resolver),
              isOld |-> FALSE]

\* contentSpecMgr.PermToEvict(fqn): (ok, isOld); reading info.Old through a
\* nil info is a runtime panic
PermToEvict(m, fqn, pid) ==
    LET fs == FileSpec(m, fqn, pid)
    IN  IF fs.resolver = "nil"
            THEN [panic |-> FALSE, ok |-> TRUE, isOld |-> FALSE]
        ELSE IF fs.info.nil
            THEN [panic |-> TRUE, ok |-> FALSE, isOld |-> FALSE]
        ELSE [panic |-> FALSE, ok |-> SpecPermToEvict(fs.resolver),
              isOld |-> fs.info.Old]

\* contentSpecMgr.PermToMove(fqn)
PermToMove(m, fqn, pid) ==
    LET fs == FileSpec(m, fqn, pid)
    IN  IF fs.resolver = "nil" THEN FALSE ELSE SpecPermToMove(fs.resolver)

\* contentSpecMgr.PermToProcess(fqn)
PermToProcess(m, fqn, pid) ==
    LET fs == FileSpec(m, fqn, pid)
    IN  IF fs.resolver = "nil" THEN FALSE ELSE SpecPermToProcess(fs.resolver)

\* the process ids: the process that starts, and the one after a restart
FirstPid == 26
NextPid == 255

\* cos.GenTie(): the n-th tie-breaker, different for every n
GenTie(n) == <<"t">> \o FormatHex(n)

\* the object names, buckets and prefixes Gen is called with: a name with a
\* "." and a name in a directory; a prefix without and one with a "."
ObjectNames == {<<"a", ".", "b">>, <<"d", "/", "o">>}
Buckets == {<<"b">>}
Prefixes == {<<"p">>, <<"p", ".", "q">>}
PartsFQNs == [Mountpath : Roots, Bucket : Buckets, ObjectName : ObjectNames]

\* a content type that is never registered
UnknownType == <<"z", "z">>
GenTypes == {ObjectType, WorkfileType, ECSliceType, ECMetaType, UnknownType}

\* the registry after the registrations of startup
StartupRegistry ==
    [t \in {ObjectType, WorkfileType, ECSliceType, ECMetaType} |->
        IF t = ObjectType THEN "ObjectContentResolver"
        ELSE IF t = WorkfileType THEN "WorkfileContentResolver"
        ELSE IF t = ECSliceType THEN "ECSliceContentResolver"
        ELSE "ECMetaContentResolver"]

\* paths that Gen did not make: without a separator, with an empty
\* basename, outside every mountpath, of an unregistered content type, and
\* workfile paths whose basename has no ".", too few fields, or a process
\* id that is not a number
NoSeparatorPath == <<"o">>
EmptyBasePath == <<"/", "m", "/", "b", "/", "o", "b", "/">>
OutsidePath == <<"/", "x", "/", "b", "/", "o", "b", "/", "o">>
UnknownTypePath == <<"/", "m", "/", "b", "/", "z", "z", "/", "o">>
NoDotWorkPath == <<"/", "m", "/", "b", "/", "w", "k", "/", "o">>
ShortWorkPath == <<"/", "m", "/", "b", "/", "w", "k", "/", "p", ".", "o">>
BadPidWorkPath ==
    <<"/", "m", "/", "b", "/", "w", "k", "/", "p", ".", "o", ".", "t", ".", "g">>
ForeignPaths ==
    {NoSeparatorPath, EmptyBasePath, OutsidePath, UnknownTypePath,
     NoDotWorkPath, ShortWorkPath, BadPidWorkPath}

\* the result of a call, with the fields its operation does not set at rest
NoRes == [resolver |-> "nil", info |-> NilInfo, ok |-> FALSE,
          isOld |-> FALSE, panic |-> FALSE, fqn |-> <<>>]
NoCodecCall == [op |-> "none", arg |-> <<>>, res |-> NoRes]

VARIABLES
    id,              \* the job's id (NewXactBCC's id argument)
    mpaths,          \* fs.Get(): the mountpaths available right now
    capErr,          \* fs.GetCapStatus().Err != nil right now
    rpc,             \* Run: the statement Run executes next
    xstate,          \* job state: Created, Running, Finished, Aborted
    dm,              \* DataMover: "new", "open", "closed"
    dmRecv,          \* the job's receive handler is registered
    availablePaths,  \* runJoggers: the snapshot returned by fs.Get()
    mpathCount,      \* runJoggers' result, the argument of waitDone
    mpathers,        \* r.mpathers: the mountpaths a jogger was created for
    launches,        \* per mountpath: number of `go bccJogger.jog()` issued
    reports,         \* what the joggers have sent to the job, in order
    nrecv,           \* waitDone: number of reports received so far
    werr,            \* waitDone: the first non-nil error received so far
    err,             \* Run's named result err
    finErr,          \* the argument of Finish
    finishCalls,     \* number of Finish invocations
    slept,           \* the drain allowance (time.Sleep) has elapsed
    jpc,             \* per jogger: position
    num,             \* per jogger: j.num
    cur,             \* per jogger: result of the CopyObject call in progress
    jerr,            \* per jogger: the error its walk ended with
    objects,         \* job counter behind ObjectsInc
    bytes,           \* job counter behind BytesAdd
    incCalls,        \* number of ObjectsInc calls made (all joggers)
    addSum,          \* sum of the arguments of all BytesAdd calls
    sizeSum,         \* sum of lom.Size() over the objects BytesAdd was called for
    copiedCount,     \* number of CopyObject calls that returned copied=true
    buf,             \* per jogger: j.buf, 0 while it has none
    slabInUse,       \* slab: the buffers handed out and not yet given back
    otherBuf,        \* the buffer a jogger of another job holds meanwhile
    allocs,          \* per jogger: number of slab.Alloc calls it made
    frees,           \* per jogger: number of slab.Free calls it made
    csm,             \* contentSpecMgr.m: content type -> resolver
    regArg,          \* the arguments of the latest Reg call
    regRet,          \* the error the latest Reg call returned
    regOk,           \* per content type: number of Reg calls that returned nil
    regFirst,        \* per content type: the resolver of its first such call
    pid,             \* the id of the running process
    rtie,            \* cos.GenTie: the tie-breakers handed out so far
    gens,            \* the Gen calls that returned an FQN, in order
    call             \* the latest Resolver, Gen, FileSpec or PermTo* call

vars == <<id, mpaths, capErr, rpc, xstate, dm, dmRecv, availablePaths,
          mpathCount, mpathers, launches, reports, nrecv, werr, err, finErr,
          finishCalls, slept, jpc, num, cur, jerr, objects, bytes,
          incCalls, addSum, sizeSum, copiedCount, buf, slabInUse, otherBuf,
          allocs,
          frees, csm, regArg, regRet, regOk, regFirst, pid, rtie, gens,
          call>>

envVars == <<mpaths, capErr>>
runVars == <<rpc, xstate, dm, dmRecv, availablePaths, mpathCount, nrecv, werr,
             err, finErr, finishCalls, slept>>
jogVars == <<num, cur, jerr>>
cntVars == <<objects, bytes, incCalls, addSum, sizeSum, copiedCount>>
bufVars == <<buf, slabInUse, otherBuf, allocs, frees>>
regVars == <<csm, regArg, regRet, regOk, regFirst>>
codecVars == <<pid, rtie, gens, call>>
jobVars == <<id, envVars, runVars, mpathers, launches, reports, jpc,
             jogVars, cntVars, bufVars>>

NoCall == [copied |-> FALSE, err |-> Nil]

Terminal == xstate \in {"Finished", "Aborted"}

\* a jogger that has been started and has not yet reported to the job
Active(m) == jpc[m] \in {"launched", "walk", "copy", "inc", "add", "check", "walked"}
\* a jogger that has reported to the job
Reported(m) == jpc[m] \in {"reported", "exited"}

\* mutant: the pool hands out its first buffer whether it is in use or not
SlabAlloc_first(inUse) == 1

\* slab.Alloc(): the pool hands out a buffer that is not in use
SlabAlloc(inUse) ==
    CHOOSE b \in 1..(Cardinality(inUse) + 1) :
        b \notin inUse /\ \A c \in 1..(b - 1) : c \in inUse

\* slab.Free(b): the pool has the buffer back
SlabFree(inUse, b) == inUse \ {b}

\* the job as NewXactBCC returns it, and the slab
JobInit ==
    /\ id \in IDs
    /\ mpaths \in SUBSET Mpaths
    /\ capErr = FALSE
    /\ rpc = "open"
    /\ xstate = "Created"
    /\ dm = "new"
    /\ dmRecv = TRUE
    /\ availablePaths = {}
    /\ mpathCount = 0
    /\ mpathers = {}
    /\ launches = [m \in Mpaths |-> 0]
    /\ reports = <<>>
    /\ nrecv = 0
    /\ werr = Nil
    /\ err = Nil
    /\ finErr = Nil
    /\ finishCalls = 0
    /\ slept = FALSE
    /\ jpc = [m \in Mpaths |-> "idle"]
    /\ num = [m \in Mpaths |-> 0]
    /\ cur = [m \in Mpaths |-> NoCall]
    /\ jerr = [m \in Mpaths |-> Nil]
    /\ objects = 0
    /\ bytes = 0
    /\ incCalls = 0
    /\ addSum = 0
    /\ sizeSum = 0
    /\ copiedCount = 0
    /\ buf = [m \in Mpaths |-> 0]
    /\ otherBuf = SlabAlloc({})
    /\ slabInUse = {otherBuf}
    /\ allocs = [m \in Mpaths |-> 0]
    /\ frees = [m \in Mpaths |-> 0]

\* a process that has made no call to the FQN codec
CodecIdle ==
    /\ pid = FirstPid
    /\ rtie = 0
    /\ gens = <<>>
    /\ call = NoCodecCall

Init ==
    /\ JobInit
    /\ CodecIdle
    /\ csm = EmptyRegistry
    /\ regArg = NoReg
    /\ regRet = Nil
    /\ regOk = [t \in ContentTypes |-> 0]
    /\ regFirst = [t \in ContentTypes |-> "nil"]

\* ------------------------------------------------------------- environment
\* a mountpath is added to or removed from the node
MpathAdd(m) ==
    /\ m \notin mpaths
    /\ mpaths' = mpaths \cup {m}
    /\ UNCHANGED <<codecVars, regVars, bufVars, id, capErr, runVars, mpathers, launches, reports, jpc,
                   jogVars, cntVars>>

MpathRemove(m) ==
    /\ m \in mpaths
    /\ mpaths' = mpaths \ {m}
    /\ UNCHANGED <<codecVars, regVars, bufVars, id, capErr, runVars, mpathers, launches, reports, jpc,
                   jogVars, cntVars>>

\* used capacity crosses the threshold, in either direction
CapChange ==
    /\ capErr' = ~capErr
    /\ UNCHANGED <<codecVars, regVars, bufVars, id, mpaths, runVars, mpathers, launches, reports, jpc,
                   jogVars, cntVars>>

\* ---------------------------------------------------------- XactBckCopy.Run
\* mutant: Close is called before the join
RunOrder_closeBeforeWait ==
    <<"open", "runJoggers", "launch", "close", "waitDone", "sleep", "unreg",
      "finish", "done">>

\* mutant: the drain allowance is taken after Close instead of before it
RunOrder_sleepAfterClose ==
    <<"open", "runJoggers", "launch", "waitDone", "close", "sleep", "unreg",
      "finish", "done">>

\* The statements of Run in program order; "launch" is the loop of
\* runJoggers, "done" is the return.
RunOrder ==
    <<"open", "runJoggers", "launch", "waitDone", "sleep", "close", "unreg",
      "finish", "done">>

RECURSIVE IndexOf(_, _, _)
IndexOf(seq, x, i) ==
    IF i > Len(seq) THEN 0
    ELSE IF seq[i] = x THEN i ELSE IndexOf(seq, x, i + 1)

\* the statement that follows statement s
NextStmt(s) == RunOrder[IndexOf(RunOrder, s, 1) + 1]

\* r.dm.Open()
RunOpen ==
    /\ rpc = "open"
    /\ dm' = "open"
    /\ xstate' = "Running"
    /\ rpc' = NextStmt("open")
    /\ UNCHANGED <<codecVars, regVars, bufVars, id, envVars, dmRecv, availablePaths, mpathCount, nrecv,
                   werr, err, finErr, finishCalls, slept, mpathers, launches,
                   reports, jpc, jogVars, cntVars>>

\* mutant: the count is one too many
MpathCount_long(paths) == Cardinality(paths) + 1

\* mutant: the count misses one mountpath
MpathCount_short(paths) == IF paths = {} THEN 0 ELSE Cardinality(paths) - 1

\* mpathCount = len(availablePaths)
MpathCount(paths) == Cardinality(paths)

\* runJoggers: availablePaths, _ = fs.Get(); mpathCount; r.xactBckBase.init
RunSnapshot ==
    /\ rpc = "runJoggers"
    /\ availablePaths' = mpaths
    /\ mpathCount' = MpathCount(mpaths)
    /\ mpathers' = {}
    /\ rpc' = NextStmt("runJoggers")
    /\ UNCHANGED <<codecVars, regVars, bufVars, id, envVars, xstate, dm, dmRecv, nrecv, werr, err, finErr,
                   finishCalls, slept, launches, reports, jpc, jogVars,
                   cntVars>>

\* mutant: the loop ranges over the live mountpath set, not the snapshot
LaunchRange_live == mpaths \ mpathers

\* the mountpaths the loop of runJoggers still has to visit
LaunchRange == availablePaths \ mpathers

\* mutant: the jogger is run in the loop itself (no `go`), so the next one
\* is launched only when the previous one has returned
RunLaunch_sync(m) ==
    /\ rpc = "launch"
    /\ m \in LaunchRange
    /\ \A k \in mpathers : jpc[k] = "exited"
    /\ mpathers' = mpathers \cup {m}
    /\ launches' = [launches EXCEPT ![m] = @ + 1]
    /\ jpc' = [jpc EXCEPT ![m] = "launched"]
    /\ UNCHANGED <<codecVars, regVars, bufVars, id, envVars, runVars, reports, jogVars, cntVars>>

\* one iteration of `for _, mpathInfo := range availablePaths`
RunLaunch(m) ==
    /\ rpc = "launch"
    /\ m \in LaunchRange
    /\ mpathers' = mpathers \cup {m}
    /\ launches' = [launches EXCEPT ![m] = @ + 1]
    /\ jpc' = [jpc EXCEPT ![m] = "launched"]
    /\ UNCHANGED <<codecVars, regVars, bufVars, id, envVars, runVars, reports, jogVars, cntVars>>

\* the loop is over: runJoggers returns mpathCount
RunJoggersReturn ==
    /\ rpc = "launch"
    /\ LaunchRange = {}
    /\ rpc' = NextStmt("launch")
    /\ UNCHANGED <<codecVars, regVars, bufVars, id, envVars, xstate, dm, dmRecv, availablePaths,
                   mpathCount, nrecv, werr, err, finErr, finishCalls, slept,
                   mpathers, launches, reports, jpc, jogVars, cntVars>>

\* waitDone keeps the first non-nil error it is given
FirstErr(have, got) == IF have = Nil THEN got ELSE have

\* waitDone(n): one jogger's report is received
WaitRecv ==
    /\ rpc = "waitDone"
    /\ nrecv < mpathCount
    /\ nrecv < Len(reports)
    /\ werr' = FirstErr(werr, reports[nrecv + 1])
    /\ nrecv' = nrecv + 1
    /\ UNCHANGED <<codecVars, regVars, bufVars, id, envVars, rpc, xstate, dm, dmRecv, availablePaths,
                   mpathCount, err, finErr, finishCalls, slept, mpathers,
                   launches, reports, jpc, jogVars, cntVars>>

\* mutant: the join returns only after a report
WaitReturn_needsReport ==
    /\ rpc = "waitDone"
    /\ nrecv >= mpathCount
    /\ nrecv >= 1
    /\ err' = werr
    /\ rpc' = NextStmt("waitDone")
    /\ UNCHANGED <<codecVars, regVars, bufVars, id, envVars, xstate, dm, dmRecv, availablePaths,
                   mpathCount, nrecv, werr, finErr, finishCalls, slept,
                   mpathers, launches, reports, jpc, jogVars, cntVars>>

\* err = r.xactBckBase.waitDone(mpathCount) returns
WaitReturn ==
    /\ rpc = "waitDone"
    /\ nrecv >= mpathCount
    /\ err' = werr
    /\ rpc' = NextStmt("waitDone")
    /\ UNCHANGED <<codecVars, regVars, bufVars, id, envVars, xstate, dm, dmRecv, availablePaths,
                   mpathCount, nrecv, werr, finErr, finishCalls, slept,
                   mpathers, launches, reports, jpc, jogVars, cntVars>>

\* time.Sleep(2 * time.Second)
RunSleep ==
    /\ rpc = "sleep"
    /\ slept' = TRUE
    /\ rpc' = NextStmt("sleep")
    /\ UNCHANGED <<codecVars, regVars, bufVars, id, envVars, xstate, dm, dmRecv, availablePaths,
                   mpathCount, nrecv, werr, err, finErr, finishCalls,
                   mpathers, launches, reports, jpc, jogVars, cntVars>>

\* r.dm.Close()
RunClose ==
    /\ rpc = "close"
    /\ dm' = "closed"
    /\ rpc' = NextStmt("close")
    /\ UNCHANGED <<codecVars, regVars, bufVars, id, envVars, xstate, dmRecv, availablePaths, mpathCount,
                   nrecv, werr, err, finErr, finishCalls, slept, mpathers,
                   launches, reports, jpc, jogVars, cntVars>>

\* mutant: the handler is left registered
RunUnreg_leak ==
    /\ rpc = "unreg"
    /\ rpc' = NextStmt("unreg")
    /\ UNCHANGED <<codecVars, regVars, bufVars, id, envVars, xstate, dm, dmRecv, availablePaths, mpathCount,
                   nrecv, werr, err, finErr, finishCalls, slept, mpathers,
                   launches, reports, jpc, jogVars, cntVars>>

\* r.dm.UnregRecv()
RunUnreg ==
    /\ rpc = "unreg"
    /\ dmRecv' = FALSE
    /\ rpc' = NextStmt("unreg")
    /\ UNCHANGED <<codecVars, regVars, bufVars, id, envVars, xstate, dm, availablePaths, mpathCount,
                   nrecv, werr, err, finErr, finishCalls, slept, mpathers,
                   launches, reports, jpc, jogVars, cntVars>>

\* mutant: an error leaves the job Finished
FinishState_finished(e) == "Finished"

\* Finish(err): the terminal state; Aborted is Finished with a non-nil error
FinishState(e) == IF e = Nil THEN "Finished" ELSE "Aborted"

\* mutant: the join's error is dropped, Finish(nil)
RunFinish_nil ==
    /\ rpc = "finish"
    /\ finErr' = Nil
    /\ xstate' = FinishState(Nil)
    /\ finishCalls' = finishCalls + 1
    /\ rpc' = NextStmt("finish")
    /\ UNCHANGED <<codecVars, regVars, bufVars, id, envVars, dm, dmRecv, availablePaths, mpathCount,
                   nrecv, werr, err, slept, mpathers, launches, reports, jpc,
                   jogVars, cntVars>>

\* r.Finish(err); return
RunFinish ==
    /\ rpc = "finish"
    /\ finErr' = err
    /\ xstate' = FinishState(err)
    /\ finishCalls' = finishCalls + 1
    /\ rpc' = NextStmt("finish")
    /\ UNCHANGED <<codecVars, regVars, bufVars, id, envVars, dm, dmRecv, availablePaths, mpathCount,
                   nrecv, werr, err, slept, mpathers, launches, reports, jpc,
                   jogVars, cntVars>>

\* ------------------------------------------------------------- bccJogger
\* mutant: a load and a store that other joggers' updates can fall between
AtomicAdd_racy(counter, delta) == {old + delta : old \in 0..counter}

\* atomic add on a job counter (ObjectsInc, BytesAdd): the values the
\* counter can hold afterwards
AtomicAdd(counter, delta) == {counter + delta}

\* mutant: an object's size is added once
BytesDelta_single(size) == size

\* the argument of BytesAdd for an object of the given size
BytesDelta(size) == size + size

\* mutant: every object is counted, copied or not
Counts_always(copied) == TRUE

\* copyObject: does the callback count the object (the `if copied` branch)
Counts(copied) == copied

\* mutant: an out-of-space error is returned as it is
copyObject_rawOOS(copied, e, n, csErr, jobID) ==
    IF copied /\ (n % throttleNumObjects) = 0 /\ csErr
        THEN NewAbortedErrorDetails(What(Kind, jobID), "cap")
    ELSE e

\* mutant: an error that is not out-of-space is swallowed
copyObject_swallow(copied, e, n, csErr, jobID) ==
    IF copied /\ (n % throttleNumObjects) = 0 /\ csErr
        THEN NewAbortedErrorDetails(What(Kind, jobID), "cap")
    ELSE IF IsErrOOS(e)
        THEN NewAbortedErrorDetails(What(Kind, jobID), "oos")
    ELSE Nil

\* mutant: the interval test is off by one
copyObject_offByOne(copied, e, n, csErr, jobID) ==
    IF copied /\ ((n + 1) % throttleNumObjects) = 0 /\ csErr
        THEN NewAbortedErrorDetails(What(Kind, jobID), "cap")
    ELSE IF IsErrOOS(e)
        THEN NewAbortedErrorDetails(What(Kind, jobID), "oos")
    ELSE e

\* mutant: the capacity check does not ask whether the object was copied
copyObject_uncopied(copied, e, n, csErr, jobID) ==
    IF (n % throttleNumObjects) = 0 /\ csErr
        THEN NewAbortedErrorDetails(What(Kind, jobID), "cap")
    ELSE IF IsErrOOS(e)
        THEN NewAbortedErrorDetails(What(Kind, jobID), "oos")
    ELSE e

\* mutant: the copy's out-of-space error comes before the capacity check
copyObject_oosFirst(copied, e, n, csErr, jobID) ==
    IF IsErrOOS(e)
        THEN NewAbortedErrorDetails(What(Kind, jobID), "oos")
    ELSE IF copied /\ (n % throttleNumObjects) = 0 /\ csErr
        THEN NewAbortedErrorDetails(What(Kind, jobID), "cap")
    ELSE e

\* copyObject: the callback's return value, given CopyObject's results, the
\* jogger's count after this object and the capacity status read at a check
copyObject(copied, e, n, csErr, jobID) ==
    IF copied /\ (n % throttleNumObjects) = 0 /\ csErr
        THEN NewAbortedErrorDetails(What(Kind, jobID), "cap")
    ELSE IF IsErrOOS(e)
        THEN NewAbortedErrorDetails(What(Kind, jobID), "oos")
    ELSE e

\* the walk after a callback returned ret: a non-nil error ends it
WalkAfter(m, ret) ==
    /\ jpc' = [jpc EXCEPT ![m] = IF ret = Nil THEN "walk" ELSE "walked"]
    /\ jerr' = [jerr EXCEPT ![m] = ret]
    /\ cur' = [cur EXCEPT ![m] = NoCall]

\* mutant: the buffer is given back to the slab right after it was taken
JogStart_freeEarly(m) ==
    /\ jpc[m] = "launched"
    /\ buf' = [buf EXCEPT ![m] = SlabAlloc(slabInUse)]
    /\ allocs' = [allocs EXCEPT ![m] = @ + 1]
    /\ jpc' = [jpc EXCEPT ![m] = "walk"]
    /\ UNCHANGED <<codecVars, regVars, id, envVars, runVars, mpathers, launches, reports,
                   jogVars, cntVars, slabInUse, otherBuf, frees>>

\* mutant: the walk starts without a buffer
JogStart_noAlloc(m) ==
    /\ jpc[m] = "launched"
    /\ jpc' = [jpc EXCEPT ![m] = "walk"]
    /\ UNCHANGED <<codecVars, regVars, bufVars, id, envVars, runVars, mpathers, launches, reports,
                   jogVars, cntVars>>

\* bccJogger.jog starts running: j.buf = j.parent.slab.Alloc()
JogStart(m) ==
    /\ jpc[m] = "launched"
    /\ buf' = [buf EXCEPT ![m] = SlabAlloc(slabInUse)]
    /\ slabInUse' = slabInUse \cup {SlabAlloc(slabInUse)}
    /\ allocs' = [allocs EXCEPT ![m] = @ + 1]
    /\ jpc' = [jpc EXCEPT ![m] = "walk"]
    /\ UNCHANGED <<codecVars, regVars, id, envVars, runVars, mpathers, launches, reports,
                   jogVars, cntVars, otherBuf, frees>>

\* mutant: a jogger's abort stops the walks of the other joggers
JogCall_stopOnAbort(m) ==
    /\ jpc[m] = "walk"
    /\ num[m] < MaxObjs
    /\ \A k \in Mpaths : jerr[k].type # "aborted"
    /\ jpc' = [jpc EXCEPT ![m] = "copy"]
    /\ UNCHANGED <<codecVars, regVars, bufVars, id, envVars, runVars, mpathers, launches, reports, num,
                   cur, jerr, cntVars>>

\* the walk hands the next object to copyObject, which calls
\* j.parent.Target().CopyObject(lom, params); objects that are not copied
\* are not bounded, counted ones are
JogCall(m) ==
    /\ jpc[m] = "walk"
    /\ num[m] < MaxObjs
    /\ jpc' = [jpc EXCEPT ![m] = "copy"]
    /\ UNCHANGED <<codecVars, regVars, bufVars, id, envVars, runVars, mpathers, launches, reports, num,
                   cur, jerr, cntVars>>

\* mutant: the capacity check comes before the object is counted
JogReturn_checkFirst(m) ==
    /\ jpc[m] = "copy"
    /\ \E copied \in BOOLEAN, e \in CopyErrs :
          IF Counts(copied) /\ ((num[m] + 1) % throttleNumObjects) = 0 /\ capErr
              THEN /\ WalkAfter(m, NewAbortedErrorDetails(What(Kind, id), "cap"))
                   /\ copiedCount' = copiedCount + 1
          ELSE IF Counts(copied)
              THEN /\ cur' = [cur EXCEPT ![m] =
                                 [copied |-> copied, err |-> e]]
                   /\ jpc' = [jpc EXCEPT ![m] = "inc"]
                   /\ copiedCount' = copiedCount + (IF copied THEN 1 ELSE 0)
                   /\ UNCHANGED jerr
              ELSE /\ WalkAfter(m, copyObject(copied, e, num[m], capErr, id))
                   /\ copiedCount' = copiedCount + (IF copied THEN 1 ELSE 0)
    /\ UNCHANGED <<codecVars, regVars, bufVars, id, envVars, runVars, mpathers, launches, reports,
                   num, objects, bytes, incCalls, addSum, sizeSum>>

\* CopyObject returns (copied, err)
JogReturn(m) ==
    /\ jpc[m] = "copy"
    /\ \E copied \in BOOLEAN, e \in CopyErrs :
          IF Counts(copied)
              THEN /\ cur' = [cur EXCEPT ![m] =
                                 [copied |-> copied, err |-> e]]
                   /\ jpc' = [jpc EXCEPT ![m] = "inc"]
                   /\ copiedCount' = copiedCount + (IF copied THEN 1 ELSE 0)
                   /\ UNCHANGED jerr
              ELSE /\ WalkAfter(m, copyObject(copied, e, num[m], capErr, id))
                   /\ copiedCount' = copiedCount + (IF copied THEN 1 ELSE 0)
    /\ UNCHANGED <<codecVars, regVars, bufVars, id, envVars, runVars, mpathers, launches, reports,
                   num, objects, bytes, incCalls, addSum, sizeSum>>

\* j.parent.ObjectsInc()
JogObjectsInc(m) ==
    /\ jpc[m] = "inc"
    /\ objects' \in AtomicAdd(objects, 1)
    /\ incCalls' = incCalls + 1
    /\ jpc' = [jpc EXCEPT ![m] = "add"]
    /\ UNCHANGED <<codecVars, regVars, bufVars, id, envVars, runVars, mpathers, launches, reports,
                   jogVars, bytes, addSum, sizeSum, copiedCount>>

\* j.parent.BytesAdd(lom.Size() + lom.Size()), for an object of some size
JogBytesAdd(m) ==
    /\ jpc[m] = "add"
    /\ \E size \in Sizes :
          /\ bytes' \in AtomicAdd(bytes, BytesDelta(size))
          /\ addSum' = addSum + BytesDelta(size)
          /\ sizeSum' = sizeSum + size
    /\ jpc' = [jpc EXCEPT ![m] = "check"]
    /\ UNCHANGED <<codecVars, regVars, bufVars, id, envVars, runVars, mpathers, launches, reports,
                   jogVars, objects, incCalls, copiedCount>>

\* j.num++, the capacity check every throttleNumObjects-th counted object,
\* the out-of-space check, and the callback's return
JogCheck(m) ==
    /\ jpc[m] = "check"
    /\ num' = [num EXCEPT ![m] = @ + 1]
    /\ WalkAfter(m, copyObject(cur[m].copied, cur[m].err, num[m] + 1, capErr, id))
    /\ UNCHANGED <<codecVars, regVars, bufVars, id, envVars, runVars, mpathers, launches, reports,
                   cntVars>>

\* the walk meets no further object
JogWalkEnd(m) ==
    /\ jpc[m] = "walk"
    /\ jpc' = [jpc EXCEPT ![m] = "walked"]
    /\ UNCHANGED <<codecVars, regVars, bufVars, id, envVars, runVars, mpathers, launches, reports,
                   jogVars, cntVars>>

\* joggerBckBase.jog ends: the jogger reports its walk's error to the job
JogReport(m) ==
    /\ jpc[m] = "walked"
    /\ reports' = Append(reports, jerr[m])
    /\ jpc' = [jpc EXCEPT ![m] = "reported"]
    /\ UNCHANGED <<codecVars, regVars, bufVars, id, envVars, runVars, mpathers, launches, jogVars, cntVars>>

\* mutant: a jogger whose walk ended with an error returns without Free
JogFree_notOnError(m) ==
    /\ jpc[m] = "reported"
    /\ IF jerr[m] = Nil
          THEN /\ slabInUse' = SlabFree(slabInUse, buf[m])
               /\ frees' = [frees EXCEPT ![m] = @ + 1]
               /\ buf' = [buf EXCEPT ![m] = 0]
          ELSE UNCHANGED <<slabInUse, frees, buf>>
    /\ jpc' = [jpc EXCEPT ![m] = "exited"]
    /\ UNCHANGED <<codecVars, regVars, id, envVars, runVars, mpathers, launches, reports,
                   jogVars, cntVars, otherBuf, allocs>>

\* j.parent.slab.Free(j.buf); the goroutine exits, and nothing reads j.buf
\* any more
JogFree(m) ==
    /\ jpc[m] = "reported"
    /\ slabInUse' = SlabFree(slabInUse, buf[m])
    /\ frees' = [frees EXCEPT ![m] = @ + 1]
    /\ buf' = [buf EXCEPT ![m] = 0]
    /\ jpc' = [jpc EXCEPT ![m] = "exited"]
    /\ UNCHANGED <<codecVars, regVars, id, envVars, runVars, mpathers, launches, reports,
                   jogVars, cntVars, otherBuf, allocs>>

\* ------------------------------------------------------ contentSpecMgr.Reg
\* bookkeeping of the Reg calls that returned nil
RegNote(contentType, spec) ==
    IF regRet' = Nil
        THEN /\ regOk' = [regOk EXCEPT ![contentType] = @ + 1]
             /\ regFirst' = IF regOk[contentType] = 0
                               THEN [regFirst EXCEPT ![contentType] = spec]
                               ELSE regFirst
        ELSE UNCHANGED <<regOk, regFirst>>

\* mutant: Reg without the already-registered check
Reg_overwrite(contentType, spec) ==
    /\ regArg' = [contentType |-> contentType, spec |-> spec]
    /\ IF ContainsRune(contentType, Separator)
          THEN /\ regRet' = RegError(contentType, "separator")
               /\ UNCHANGED csm
       ELSE IF Len(contentType) # contentTypeLen
          THEN /\ regRet' = RegError(contentType, "length")
               /\ UNCHANGED csm
       ELSE /\ csm' = MapSet(csm, contentType, spec)
            /\ regRet' = Nil
    /\ RegNote(contentType, spec)
    /\ UNCHANGED <<jobVars, codecVars>>

\* mutant: a duplicate registration is ignored without an error
Reg_dupNil(contentType, spec) ==
    /\ regArg' = [contentType |-> contentType, spec |-> spec]
    /\ IF ContainsRune(contentType, Separator)
          THEN /\ regRet' = RegError(contentType, "separator")
               /\ UNCHANGED csm
       ELSE IF Len(contentType) # contentTypeLen
          THEN /\ regRet' = RegError(contentType, "length")
               /\ UNCHANGED csm
       ELSE IF contentType \in DOMAIN csm
          THEN /\ regRet' = Nil
               /\ UNCHANGED csm
       ELSE /\ csm' = MapSet(csm, contentType, spec)
            /\ regRet' = Nil
    /\ RegNote(contentType, spec)
    /\ UNCHANGED <<jobVars, codecVars>>

\* contentSpecMgr.Reg(contentType, spec)
Reg(contentType, spec) ==
    /\ regArg' = [contentType |-> contentType, spec |-> spec]
    /\ IF ContainsRune(contentType, Separator)
          THEN /\ regRet' = RegError(contentType, "separator")
               /\ UNCHANGED csm
       ELSE IF Len(contentType) # contentTypeLen
          THEN /\ regRet' = RegError(contentType, "length")
               /\ UNCHANGED csm
       ELSE IF contentType \in DOMAIN csm
          THEN /\ regRet' = RegError(contentType, "registered")
               /\ UNCHANGED csm
       ELSE /\ csm' = MapSet(csm, contentType, spec)
            /\ regRet' = Nil
    /\ RegNote(contentType, spec)
    /\ UNCHANGED <<jobVars, codecVars>>

\* ------------------------------------------------------- FQN codec calls
\* the paths the callers hold: those Gen returned, and the foreign ones
KnownPaths == ForeignPaths \cup {gens[i].fqn : i \in 1..Len(gens)}

\* CSM.Resolver(contentType)
ResolverCall(contentType) ==
    /\ call' = [op |-> "Resolver", arg |-> contentType,
                res |-> [NoRes EXCEPT !.resolver = Resolver(csm, contentType)]]
    /\ UNCHANGED <<jobVars, regVars, pid, rtie, gens>>

\* CSM.Gen(parts, contentType, prefix); only the workfile resolver takes a
\* tie-breaker. The calls of one behaviour are for one object and one
\* prefix: the files kept are the contents made for that object.
GenCall(parts, contentType, prefix) ==
    /\ Len(gens) < MaxGens
    /\ gens # <<>> => (parts = gens[1].parts /\ prefix = gens[1].prefix)
    /\ LET ret == Gen(csm, parts, contentType, prefix, GenTie(rtie + 1),
                      Spid(pid))
       IN  /\ call' = [op |-> "Gen", arg |-> contentType,
                       res |-> [NoRes EXCEPT !.panic = ret.panic,
                                             !.fqn = ret.fqn]]
           /\ gens' = IF ret.panic THEN gens
                      ELSE Append(gens, [parts |-> parts,
                                         contentType |-> contentType,
                                         prefix |-> prefix, pid |-> pid,
                                         fqn |-> ret.fqn])
    /\ rtie' = IF Resolver(csm, contentType) = "WorkfileContentResolver"
                  THEN rtie + 1 ELSE rtie
    /\ UNCHANGED <<jobVars, regVars, pid>>

\* mutant: FileSpec registers the content type of a path it does not know
FileSpecCall_learn(fqn) ==
    /\ LET fs == FileSpec(csm, fqn, pid)
       IN  call' = [op |-> "FileSpec", arg |-> fqn,
                    res |-> [NoRes EXCEPT !.resolver = fs.resolver,
                                          !.info = fs.info]]
    /\ csm' = IF ~ParseFQN(fqn).err /\ ParseFQN(fqn).ContentType \notin DOMAIN csm
                 THEN MapSet(csm, ParseFQN(fqn).ContentType,
                             "ObjectContentResolver")
                 ELSE csm
    /\ UNCHANGED <<jobVars, regArg, regRet, regOk, regFirst, pid, rtie, gens>>

\* CSM.FileSpec(fqn)
FileSpecCall(fqn) ==
    /\ LET fs == FileSpec(csm, fqn, pid)
       IN  call' = [op |-> "FileSpec", arg |-> fqn,
                    res |-> [NoRes EXCEPT !.resolver = fs.resolver,
                                          !.info = fs.info]]
    /\ UNCHANGED <<jobVars, regVars, pid, rtie, gens>>

\* CSM.PermToEvict(fqn)
PermToEvictCall(fqn) ==
    /\ LET r == PermToEvict(csm, fqn, pid)
       IN  call' = [op |-> "PermToEvict", arg |-> fqn,
                    res |-> [NoRes EXCEPT !.ok = r.ok, !.isOld = r.isOld,
                                          !.panic = r.panic]]
    /\ UNCHANGED <<jobVars, regVars, pid, rtie, gens>>

\* CSM.PermToMove(fqn)
PermToMoveCall(fqn) ==
    /\ call' = [op |-> "PermToMove", arg |-> fqn,
                res |-> [NoRes EXCEPT !.ok = PermToMove(csm, fqn, pid)]]
    /\ UNCHANGED <<jobVars, regVars, pid, rtie, gens>>

\* CSM.PermToProcess(fqn)
PermToProcessCall(fqn) ==
    /\ call' = [op |-> "PermToProcess", arg |-> fqn,
                res |-> [NoRes EXCEPT !.ok = PermToProcess(csm, fqn, pid)]]
    /\ UNCHANGED <<jobVars, regVars, pid, rtie, gens>>

\* the process ends and another one starts: a new process id, the counter
\* of tie-breakers anew, the same registrations, the files still on disk
Restart ==
    /\ pid = FirstPid
    /\ pid' = NextPid
    /\ rtie' = 0
    /\ call' = NoCodecCall
    /\ UNCHANGED <<jobVars, regVars, gens>>

\* ---------------------------------------------------------- specification
Next ==
    \/ \E m \in Mpaths : MpathAdd(m)
    \/ \E m \in Mpaths : MpathRemove(m)
    \/ CapChange
    \/ RunOpen
    \/ RunSnapshot
    \/ \E m \in Mpaths : RunLaunch(m)
    \/ RunJoggersReturn
    \/ WaitRecv
    \/ WaitReturn
    \/ RunSleep
    \/ RunClose
    \/ RunUnreg
    \/ RunFinish
    \/ \E m \in Mpaths : JogStart(m)
    \/ \E m \in Mpaths : JogCall(m)
    \/ \E m \in Mpaths : JogReturn(m)
    \/ \E m \in Mpaths : JogObjectsInc(m)
    \/ \E m \in Mpaths : JogBytesAdd(m)
    \/ \E m \in Mpaths : JogCheck(m)
    \/ \E m \in Mpaths : JogWalkEnd(m)
    \/ \E m \in Mpaths : JogReport(m)
    \/ \E m \in Mpaths : JogFree(m)

Spec == Init /\ [][Next]_vars

\* the steps of Run's goroutine
RunStep ==
    \/ RunOpen
    \/ RunSnapshot
    \/ \E m \in Mpaths : RunLaunch(m)
    \/ RunJoggersReturn
    \/ WaitRecv
    \/ WaitReturn
    \/ RunSleep
    \/ RunClose
    \/ RunUnreg
    \/ RunFinish

\* the steps of the jogger of mountpath m, its launch included
JogStep(m) ==
    \/ RunLaunch(m)
    \/ JogStart(m)
    \/ JogCall(m)
    \/ JogReturn(m)
    \/ JogObjectsInc(m)
    \/ JogBytesAdd(m)
    \/ JogCheck(m)
    \/ JogWalkEnd(m)
    \/ JogReport(m)
    \/ JogFree(m)

\* Run's goroutine is scheduled fairly: a statement of Run that stays
\* executable is executed. Nothing is assumed about the joggers.
FairSpec == Spec /\ WF_vars(RunStep)

\* the registrations made at startup, in any order and with any arguments
RegNext == \E contentType \in ContentTypes, spec \in Resolvers :
              Reg(contentType, spec)

RegSpec == Init /\ [][RegNext]_vars

\* a process after its startup registrations
CodecInit ==
    /\ JobInit
    /\ mpaths = Mpaths
    /\ CodecIdle
    /\ csm = StartupRegistry
    /\ regArg = [contentType |-> ECMetaType, spec |-> "ECMetaContentResolver"]
    /\ regRet = Nil
    /\ regOk = [t \in ContentTypes |-> IF t \in DOMAIN StartupRegistry
                                          THEN 1 ELSE 0]
    /\ regFirst = [t \in ContentTypes |-> Resolver(StartupRegistry, t)]

\* the calls made once the registrations are over
CodecNext ==
    \/ \E contentType \in GenTypes : ResolverCall(contentType)
    \/ \E parts \in PartsFQNs, contentType \in GenTypes, prefix \in Prefixes :
          GenCall(parts, contentType, prefix)
    \/ \E fqn \in KnownPaths : FileSpecCall(fqn)
    \/ \E fqn \in KnownPaths : PermToEvictCall(fqn)
    \/ \E fqn \in KnownPaths : PermToMoveCall(fqn)
    \/ \E fqn \in KnownPaths : PermToProcessCall(fqn)
    \/ Restart

CodecSpec == CodecInit /\ [][CodecNext]_vars

TypeOK ==
    /\ rpc \in {"open", "runJoggers", "launch", "waitDone", "sleep", "close",
                "unreg", "finish", "done"}
    /\ xstate \in {"Created", "Running", "Finished", "Aborted"}
    /\ dm \in {"new", "open", "closed"}
    /\ mpathers \subseteq Mpaths
    /\ objects \in Nat /\ bytes \in Nat

\* ------------------------------------------------------------------ claims
\* the joggers that have reported to the job
ReportedSet == {m \in Mpaths : Reported(m)}

\* the launch loop of runJoggers is over
Launched == rpc \notin {"open", "runJoggers", "launch"}

\* every jogger of the snapshot was launched and has reported
AllReported ==
    /\ Launched
    /\ \A m \in availablePaths : launches[m] >= 1 /\ Reported(m)
    /\ Len(reports) >= Cardinality(availablePaths)

RECURSIVE FirstNonNil(_)
FirstNonNil(seq) ==
    IF seq = <<>> THEN Nil
    ELSE IF Head(seq) # Nil THEN Head(seq) ELSE FirstNonNil(Tail(seq))

RECURSIVE SumNum(_)
SumNum(S) ==
    IF S = {} THEN 0
    ELSE LET m == CHOOSE x \in S : TRUE IN num[m] + SumNum(S \ {m})

CapAbort == NewAbortedErrorDetails(<<Kind, id>>, "cap")

\* C1: Finish is invoked at most once, Run does not return without having
\* invoked it, and when it is invoked every one of the M joggers launched
\* for the snapshot has already reported (with success or with an error).
C1_FinishOnceAfterAllReported ==
    /\ finishCalls <= 1
    /\ rpc = "done" => finishCalls = 1
    /\ finishCalls >= 1 => AllReported

C1_Witness ==
    /\ finishCalls = 1
    /\ Cardinality(availablePaths) = 2
    /\ ReportedSet = availablePaths

\* C2: once the launch loop is over, exactly the mountpaths of the snapshot
\* taken by runJoggers have a jogger, each was launched exactly once, no
\* other mountpath was launched, and the count handed to the join is the
\* size of the snapshot; the snapshot is the mountpath set at the moment
\* runJoggers reads it, and afterwards neither the snapshot, the count nor
\* the set of joggers changes, whatever happens to the mountpath set.
C2_OneJoggerPerSnapshotMpath ==
    /\ [](Launched =>
            /\ mpathers = availablePaths
            /\ mpathCount = Cardinality(availablePaths)
            /\ \A m \in Mpaths :
                  launches[m] = IF m \in availablePaths THEN 1 ELSE 0)
    /\ [][/\ (rpc = "runJoggers" /\ rpc' # rpc) => availablePaths' = mpaths
          /\ (rpc \notin {"open", "runJoggers"}) =>
                /\ availablePaths' = availablePaths
                /\ mpathCount' = mpathCount
          /\ Launched => (mpathers' = mpathers /\ launches' = launches)]_vars

C2_Witness ==
    /\ rpc = "waitDone"
    /\ Cardinality(mpathers) = 2
    /\ mpaths = {}
    /\ \A m \in Mpaths : launches[m] = 1

\* C3: the error the join has so far is the first non-nil error among the
\* reports it has received, so a later non-nil report never replaces it; the
\* error passed to Finish is the first non-nil error of all reports, and it
\* is nil only if every jogger reported nil.
C3_FirstErrorWins ==
    /\ werr = FirstNonNil(SubSeq(reports, 1, nrecv))
    /\ Terminal =>
          /\ finErr = FirstNonNil(reports)
          /\ finErr = Nil => \A i \in 1..Len(reports) : reports[i] = Nil

C3_Witness ==
    /\ Terminal
    /\ Len(reports) = 2
    /\ reports[1] # Nil
    /\ reports[2] # Nil
    /\ reports[1] # reports[2]
    /\ finErr = reports[1]

\* C4: a jogger exists only once the DataMover has been opened, and while
\* any jogger is started and has not yet reported (so may be inside a
\* per-object copy) the DataMover is open; it is closed only when the launch
\* loop is over and every jogger has reported.
C4_MoverOpenWhileJoggersRun ==
    /\ \A m \in Mpaths : jpc[m] # "idle" => dm # "new"
    /\ \A m \in Mpaths : Active(m) => dm = "open"
    /\ dm = "closed" => AllReported

C4_Witness ==
    /\ dm = "closed"
    /\ Cardinality(ReportedSet) = 2
    /\ objects >= 1

\* C5: the tail of Run is ordered: the drain allowance has elapsed only if
\* all joggers have reported, the DataMover is closed only if the drain
\* allowance has elapsed, the handler is unregistered only if the DataMover
\* is closed, and Finish has been called only if the handler is unregistered.
C5_TailOrder ==
    /\ slept => AllReported
    /\ dm = "closed" => slept
    /\ ~dmRecv => (dm = "closed" /\ slept /\ AllReported)
    /\ finishCalls >= 1 => ~dmRecv

C5_Witness ==
    /\ rpc = "finish"
    /\ ~dmRecv
    /\ dm = "closed"
    /\ slept
    /\ Cardinality(ReportedSet) = 2

\* C6: in every terminal state of the job, Finished or Aborted, the
\* DataMover is closed and the job's receive handler is not registered.
C6_NoHandlerAfterTerminal ==
    Terminal => (dm = "closed" /\ ~dmRecv)

C6_Witness ==
    /\ xstate = "Aborted"
    /\ ~dmRecv
    /\ Cardinality(ReportedSet) = 2

\* C7: when the job is terminal, the objects counter equals the number of
\* ObjectsInc calls made by all joggers and the bytes counter equals the sum
\* of the arguments of all BytesAdd calls, under every interleaving.
C7_NoLostUpdates ==
    Terminal => (objects = incCalls /\ bytes = addSum)

C7_Witness ==
    /\ Terminal
    /\ \A m \in Mpaths : num[m] >= 1
    /\ incCalls >= 3

\* C8: at no time have more objects been counted than copies reported
\* copied=true (an object reported copied=false adds nothing to the objects
\* or bytes counters), and when a job ends without error the objects
\* counter equals the number of copies that reported copied=true.
C8_CopiedObjectsCounted ==
    /\ objects <= copiedCount
    /\ bytes <= BytesDelta(MaxSize) * copiedCount
    /\ (Terminal /\ finErr = Nil) => objects = copiedCount

C8_Witness ==
    /\ Terminal
    /\ finErr = Nil
    /\ Cardinality(availablePaths) = 2
    /\ num[1] = MaxObjs
    /\ num[2] = MaxObjs
    /\ objects = 2 * MaxObjs
    /\ copiedCount = 2 * MaxObjs

\* one jogger of several ended on a capacity breach, the others ended normally
OneCapBreach ==
    /\ Cardinality(availablePaths) >= 2
    /\ \E m \in availablePaths :
          /\ jerr[m].type = "aborted" /\ jerr[m].cause = "cap"
          /\ \A k \in availablePaths \ {m} : jerr[k] = Nil

\* C9: when the job is terminal and one of several joggers ended on a
\* capacity breach while the others ended normally, the state is Aborted,
\* the terminal error is the abort error naming the job's kind and id, and
\* the counters hold everything every jogger counted.
C9_CapBreachAborts ==
    (Terminal /\ OneCapBreach) =>
        /\ xstate = "Aborted"
        /\ finErr.type = "aborted"
        /\ finErr.what = <<Kind, id>>
        /\ objects = SumNum(Mpaths)
        /\ bytes = addSum

C9_Witness ==
    /\ Terminal
    /\ OneCapBreach
    /\ \A m \in Mpaths : num[m] >= 1
    /\ finErr = CapAbort

\* C10: when a jogger finishes counting an object (objects counted by the
\* job being the processed objects) and its count is then a multiple of the
\* interval while the capacity status is over threshold, its walk ends there
\* with the abort error naming the job's kind and id; a jogger whose walk
\* ended with an error takes no further object, and what it reports is that
\* error.
C10_ThrottledCapacityCheck ==
    /\ [][\A m \in Mpaths :
            (jpc[m] = "check" /\ jpc'[m] # "check"
                /\ (num'[m] % throttleNumObjects) = 0 /\ capErr) =>
                  (jpc'[m] = "walked" /\ jerr'[m] = CapAbort
                     /\ jpc'[m] # "copy")]_vars
    /\ [][\A m \in Mpaths : jerr[m] # Nil =>
            (num'[m] = num[m] /\ jerr'[m] = jerr[m]
               /\ jpc'[m] \in {"walked", "reported", "exited"})]_vars
    /\ [][\A m \in Mpaths :
            (jpc[m] = "walked" /\ jpc'[m] = "reported") =>
                reports' = Append(reports, jerr[m])]_vars

C10_Witness ==
    \E m \in Mpaths :
        /\ jerr[m] = CapAbort
        /\ num[m] = throttleNumObjects
        /\ Reported(m)
        /\ reports[Len(reports)] = CapAbort

\* C11: whatever the copy reports as copied, whatever the jogger's count and
\* the capacity status, the callback's result for an out-of-space error of
\* the copy is an abort error naming the job's kind and id, never the raw
\* error and never nil; and a jogger whose copy of a counted object returned
\* out-of-space ends its walk with such an error.
C11_OutOfSpaceAborts ==
    /\ [](\A m \in Mpaths : \A copied, cs \in BOOLEAN :
            LET n == num[m] + (IF copied THEN 1 ELSE 0)
                r == copyObject(copied, ErrOOS, n, cs, id)
            IN  /\ r.type = "aborted"
                /\ r.what = <<Kind, id>>
                /\ r # ErrOOS
                /\ r # Nil)
    /\ [][\A m \in Mpaths :
            (jpc[m] = "check" /\ jpc'[m] # "check" /\ IsErrOOS(cur[m].err)) =>
                /\ jpc'[m] = "walked"
                /\ jerr'[m].type = "aborted"
                /\ jerr'[m].what = <<Kind, id>>]_vars

C11_Witness ==
    \E m \in Mpaths :
        /\ jerr[m] = NewAbortedErrorDetails(<<Kind, id>>, "oos")
        /\ num[m] = 1
        /\ Reported(m)

\* C12: a jogger whose copy of a counted object failed ends its walk there
\* with a non-nil error; a jogger whose walk ended with an error has its
\* walk over, takes no further object, and the report it made is that error.
C12_ObjectFailureEndsWalk ==
    /\ [](\A m \in Mpaths :
            /\ jerr[m] # Nil => jpc[m] \in {"walked", "reported", "exited"}
            /\ (jerr[m] # Nil /\ Reported(m)) =>
                  \E i \in 1..Len(reports) : reports[i] = jerr[m])
    /\ [][\A m \in Mpaths :
            /\ (jpc[m] = "check" /\ jpc'[m] # "check" /\ cur[m].err # Nil) =>
                  (jpc'[m] = "walked" /\ jerr'[m] # Nil)
            /\ jerr[m] # Nil => jpc'[m] # "copy"]_vars

C12_Witness ==
    \E m \in Mpaths :
        /\ jerr[m] = ErrOther
        /\ num[m] = 1
        /\ jpc[m] = "exited"

\* some jogger of the job ended its walk with an abort error
SomeAbort == \E m \in Mpaths : jerr[m].type = "aborted"

\* C13: when a jogger has ended its walk with an abort error, every other
\* jogger that is in its walk can still take its next object and every one
\* inside a copy can still get its result; the job is terminal only when
\* all joggers have reported, and it is then Aborted if any jogger aborted.
C13_CooperativeAbort ==
    /\ \A m \in Mpaths : jerr[m].type = "aborted" =>
          \A k \in Mpaths \ {m} :
              /\ (jpc[k] = "walk" /\ num[k] < MaxObjs) => ENABLED JogCall(k)
              /\ jpc[k] = "copy" => ENABLED JogReturn(k)
    /\ Terminal => AllReported
    /\ (Terminal /\ SomeAbort) => xstate = "Aborted"

C13_Witness ==
    /\ Terminal
    /\ jerr[1].type = "aborted"
    /\ reports[1] = jerr[1]
    /\ jerr[2] = Nil
    /\ num[2] = MaxObjs

\* C14: while a jogger is inside a per-object copy, every other jogger of
\* the snapshot that has not exited has a step it can take (being launched
\* included), and Run has not got past the join.
C14_JoggersIndependent ==
    \A m \in Mpaths : jpc[m] = "copy" =>
        /\ \A k \in availablePaths \ {m} :
              jpc[k] # "exited" => ENABLED JogStep(k)
        /\ rpc \in {"launch", "waitDone"}

C14_Witness ==
    /\ jpc[1] = "copy"
    /\ jpc[2] = "exited"
    /\ num[2] = MaxObjs
    /\ rpc = "waitDone"
    /\ nrecv = 1

\* C15: the job state changes only Created -> Running, Running -> Finished
\* and Running -> Aborted; a terminal state is Aborted exactly when the
\* error given to Finish is non-nil, and no state is terminal before Finish.
C15_StateMachine ==
    /\ [](/\ Terminal => (xstate = "Aborted" <=> finErr # Nil)
          /\ Terminal <=> finishCalls >= 1
          /\ xstate = "Created" <=> rpc = "open")
    /\ [][\/ xstate' = xstate
          \/ xstate = "Created" /\ xstate' = "Running"
          \/ xstate = "Running" /\ xstate' \in {"Finished", "Aborted"}]_vars

C15_Witness ==
    /\ xstate = "Aborted"
    /\ finErr = ErrOther
    /\ rpc = "done"

\* C16: no step decreases the objects or the bytes counter, and once the
\* job is terminal no step changes them.
C16_CountersMonotoneThenFinal ==
    [][/\ objects' >= objects
       /\ bytes' >= bytes
       /\ Terminal => (objects' = objects /\ bytes' = bytes)]_vars

C16_Witness ==
    /\ Terminal
    /\ objects = 2 * MaxObjs
    /\ bytes > BytesDelta(1) * objects

\* C17: with Run scheduled fairly, once every launched jogger has reported
\* the job eventually has its DataMover closed and is terminal; and the job
\* is never terminal while a jogger of the snapshot has not reported.
C17_JobTerminates ==
    /\ AllReported ~> (Terminal /\ dm = "closed")
    /\ [](Terminal => \A m \in availablePaths : Reported(m))

C17_Witness ==
    /\ Terminal
    /\ dm = "closed"
    /\ Cardinality(availablePaths) = 2
    /\ \A m \in availablePaths : jpc[m] = "reported"

\* a jogger between its Alloc and its Free
Holding(m) ==
    jpc[m] \in {"walk", "copy", "inc", "add", "check", "walked", "reported"}

\* C18: every jogger acquires its buffer exactly once when it starts and
\* releases it exactly once when it exits, whichever way its walk ended:
\* before it runs it has acquired nothing, while it runs it has acquired one
\* buffer and not released it, and once it has exited it has released that
\* one buffer and no more.
C18_BufferAllocOnceFreeOnce ==
    \A m \in Mpaths :
        /\ allocs[m] <= 1
        /\ frees[m] <= allocs[m]
        /\ jpc[m] \in {"idle", "launched"} =>
              (allocs[m] = 0 /\ frees[m] = 0 /\ buf[m] = 0)
        /\ Holding(m) =>
              (allocs[m] = 1 /\ frees[m] = 0 /\ buf[m] \in slabInUse)
        /\ jpc[m] = "exited" =>
              (allocs[m] = 1 /\ frees[m] = 1 /\ buf[m] = 0)
        /\ (\A k \in Mpaths : ~Holding(k)) => slabInUse = {otherBuf}

C18_Witness ==
    /\ jpc[1] = "exited"
    /\ jerr[1].type = "aborted"
    /\ jpc[2] = "exited"
    /\ jerr[2] = Nil
    /\ num[2] = MaxObjs
    /\ slabInUse = {otherBuf}

\* C19: a buffer a jogger holds between its Alloc and its Free is held by
\* no other jogger and by no other job at that time.
C19_BufferExclusive ==
    \A m \in Mpaths : Holding(m) =>
        /\ buf[m] # 0
        /\ buf[m] # otherBuf
        /\ \A k \in Mpaths \ {m} : Holding(k) => buf[k] # buf[m]

C19_Witness ==
    /\ jpc[1] = "copy"
    /\ jpc[2] = "copy"
    /\ buf[1] # buf[2]
    /\ otherBuf \in slabInUse
    /\ Cardinality(slabInUse) = 3

\* a content type Reg must refuse, given the registry it is called on
Refused(m, contentType) ==
    \/ Len(contentType) # 2
    \/ \E i \in 1..Len(contentType) : contentType[i] = "/"
    \/ contentType \in DOMAIN m

\* C20: a Reg call with a content type whose length is not 2, or which
\* holds the path separator, or which is already in the registry, returns
\* an error and leaves the registry as it was, the resolver of a duplicate
\* content type included; and the registry never holds such a content type.
C20_RegRefusesBadOrDuplicate ==
    /\ [][Refused(csm, regArg'.contentType) =>
            /\ regRet' # Nil
            /\ csm' = csm
            /\ \A t \in DOMAIN csm : csm'[t] = csm[t]]_regVars
    /\ [](\A t \in DOMAIN csm :
            Len(t) = 2 /\ \A i \in 1..Len(t) : t[i] # "/")

C20_Witness ==
    /\ regRet = RegError(ObjectType, "registered")
    /\ regArg = [contentType |-> ObjectType, spec |-> "WorkfileContentResolver"]
    /\ csm[ObjectType] = "ObjectContentResolver"
    /\ DOMAIN csm = {ObjectType, WorkfileType, ECSliceType, ECMetaType}

\* a content type of two characters without the separator
ValidTag(t) == Len(t) = 2 /\ \A i \in 1..Len(t) : t[i] # "/"

\* C21: over any sequence of Reg calls, a Reg call with a valid content type
\* that no earlier call registered returns nil and every later call with it
\* returns an error, so that it is registered exactly once; Resolver of a
\* registered content type returns the resolver of that first call, and
\* Resolver of a content type no call registered returns nil.
C21_RegisteredOnceResolves ==
    /\ [](\A t \in ContentTypes :
            /\ regOk[t] <= 1
            /\ regOk[t] = 1 =>
                  (ValidTag(t) /\ Resolver(csm, t) = regFirst[t]
                     /\ regFirst[t] \in Resolvers)
            /\ regOk[t] = 0 => Resolver(csm, t) = "nil")
    /\ [][LET t == regArg'.contentType
          IN  /\ (ValidTag(t) /\ regOk[t] = 0) =>
                    (regRet' = Nil /\ regOk'[t] = 1
                       /\ regFirst'[t] = regArg'.spec)
              /\ regOk[t] >= 1 => (regRet' # Nil /\ regOk' = regOk)]_regVars

C21_Witness ==
    /\ regOk[WorkfileType] = 1
    /\ regFirst[WorkfileType] = "WorkfileContentResolver"
    /\ regArg = [contentType |-> WorkfileType, spec |-> "ObjectContentResolver"]
    /\ regRet # Nil
    /\ Resolver(csm, WorkfileType) = "WorkfileContentResolver"
    /\ Resolver(csm, ECMetaType) = "nil"

\* the latest call is FileSpec on the FQN the i-th Gen call returned
DecodedGen(i) ==
    /\ i \in 1..Len(gens)
    /\ call.op = "FileSpec"
    /\ call.arg = gens[i].fqn

\* the last path element of a name
BaseName(name) == Split(name).file

\* s from after its first "."
AfterFirstDot(s) == Slice(s, Index(s, ".") + 1, Len(s))

HasDot(s) == \E i \in 1..Len(s) : s[i] = "."
HasSeparator(s) == \E i \in 1..Len(s) : s[i] = "/"

C23_WorkfileOldFlag ==
    \A i \in 1..MaxGens : DecodedGen(i) =>
        /\ ~call.res.info.nil
        /\ call.res.info.Old =
              (gens[i].contentType = WorkfileType /\ gens[i].pid # pid)

C23_Witness ==
    /\ DecodedGen(1)
    /\ gens[1].contentType = WorkfileType
    /\ gens[1].pid = FirstPid
    /\ pid = NextPid
    /\ call.res.info.Old
    /\ Len(gens) = 2
    /\ gens[2].contentType = WorkfileType
    /\ gens[2].pid = NextPid

\* a path FileSpec must not decode: its directory part does not end with
\* the separator, its basename is empty, or the FQN parser rejects it
Malformed(fqn) ==
    \/ \A i \in 1..Len(fqn) : fqn[i] # "/"
    \/ fqn = <<>>
    \/ fqn[Len(fqn)] = "/"
    \/ ParseFQN(fqn).err

\* C24: FileSpec of a malformed path returns no resolver and no info, and
\* does not fail.
C24_MalformedPathAbsent ==
    (call.op = "FileSpec" /\ Malformed(call.arg)) =>
        /\ call.res.resolver = "nil"
        /\ call.res.info = NilInfo
        /\ ~call.res.panic

C24_Witness ==
    /\ call.op = "FileSpec"
    /\ call.arg = NoSeparatorPath
    /\ Malformed(EmptyBasePath)
    /\ Malformed(OutsidePath)
    /\ call.res.resolver = "nil"
    /\ Len(gens) = 1

\* the latest call is op on the FQN the i-th Gen call returned
QueriedGen(op, i) ==
    /\ i \in 1..Len(gens)
    /\ call.op = op
    /\ call.arg = gens[i].fqn

\* C25: for a path of an unregistered content type, a malformed path and a
\* workfile path whose basename its resolver cannot parse, PermToEvict
\* returns true and PermToMove and PermToProcess return false.
C25_UnknownEvictOnly ==
    call.arg \in ForeignPaths =>
        /\ call.op = "PermToEvict" => (call.res.ok /\ ~call.res.panic)
        /\ call.op = "PermToMove" => ~call.res.ok
        /\ call.op = "PermToProcess" => ~call.res.ok
        /\ call.op = "FileSpec" => call.res.resolver = "nil"

C25_Witness ==
    /\ call.op = "PermToEvict"
    /\ call.arg = UnknownTypePath
    /\ call.res.ok
    /\ gens # <<>>

\* C26: for an FQN that Gen returned, the three queries answer as the
\* registered resolver does: an object may be moved, evicted and processed;
\* a workfile may be evicted only; an EC slice and an EC metadata file may
\* be moved and evicted, not processed.
C26_PermissionTable ==
    \A i \in 1..MaxGens :
        LET spec == csm[gens[i].contentType]
        IN  /\ QueriedGen("PermToMove", i) =>
                  (call.res.ok <=> spec \in {"ObjectContentResolver",
                                             "ECSliceContentResolver",
                                             "ECMetaContentResolver"})
            /\ QueriedGen("PermToEvict", i) => (call.res.ok /\ ~call.res.panic)
            /\ QueriedGen("PermToProcess", i) =>
                  (call.res.ok <=> spec = "ObjectContentResolver")

C26_Witness ==
    /\ QueriedGen("PermToMove", 2)
    /\ gens[2].contentType = WorkfileType
    /\ ~call.res.ok
    /\ gens[1].contentType = ECSliceType

\* C27: no call of Resolver, Gen, FileSpec, PermToEvict, PermToMove or
\* PermToProcess changes the registry, whatever its argument.
C27_RegistryFrozen ==
    [][csm' = csm /\ DOMAIN csm' = DOMAIN csm]_vars

C27_Witness ==
    /\ call.op = "FileSpec"
    /\ call.arg = UnknownTypePath
    /\ Len(gens) = MaxGens
    /\ csm = StartupRegistry
    /\ pid = NextPid

\* i and j are two Gen calls of the workfile content type made in one
\* process for the same object name and prefix
WorkfilePair(i, j) ==
    /\ i \in 1..Len(gens)
    /\ j \in 1..Len(gens)
    /\ i < j
    /\ gens[i].contentType = WorkfileType
    /\ gens[j].contentType = WorkfileType
    /\ gens[i].parts = gens[j].parts
    /\ gens[i].prefix = gens[j].prefix
    /\ gens[i].pid = gens[j].pid

\* Base of the info FileSpec gives for the i-th generated FQN
DecodedBase(i) == FileSpec(csm, gens[i].fqn, pid).info.Base

Counting == {m \in Mpaths : jpc[m] \in {"add", "check"}}

\* the joggers that have called BytesAdd for an object and not yet finished
\* with it
Checking == {m \in Mpaths : jpc[m] = "check"}

\* C29: an aborted job keeps what it counted: when the job is terminal and
\* Aborted the counters hold every ObjectsInc and BytesAdd that was made and
\* no later step changes them; and a jogger's walk ends on the capacity
\* breach only in the step after its ObjectsInc and BytesAdd for that object,
\* a step that takes nothing back and makes the object one of those the
\* jogger counted.
C29_AbortKeepsCounts ==
    /\ [](incCalls = SumNum(Mpaths) + Cardinality(Counting))
    /\ []((Terminal /\ xstate = "Aborted") =>
             (objects = incCalls /\ bytes = addSum
                /\ objects = SumNum(Mpaths)))
    /\ [][(xstate' = "Aborted") => (objects' = objects /\ bytes' = bytes)]_vars
    /\ [][\A m \in Mpaths :
            (jerr[m] # CapAbort /\ jerr'[m] = CapAbort) =>
                /\ m \in Checking
                /\ cur[m].copied
                /\ num'[m] = num[m] + 1
                /\ incCalls' = incCalls
                /\ addSum' = addSum
                /\ objects' = objects
                /\ bytes' = bytes]_vars

C29_Witness ==
    /\ Terminal
    /\ xstate = "Aborted"
    /\ finErr = CapAbort
    /\ \E m \in Mpaths : jerr[m] = CapAbort /\ num[m] = throttleNumObjects
    /\ objects = 2 * MaxObjs
    /\ bytes = addSum
    /\ bytes > 0

DecodedWorkfile(i) ==
    /\ DecodedGen(i)
    /\ gens[i].contentType = WorkfileType

\* C31: decoding a workfile name generated from a basename and a prefix
\* gives exactly that basename, for every prefix and basename, with or
\* without a "." in them.
C31_Original ==
    \A i \in 1..MaxGens : DecodedWorkfile(i) =>
        /\ ~call.res.info.nil
        /\ call.res.info.Base = BaseName(gens[i].parts.ObjectName)

\* the number of "." in s
DotCount(s) == Cardinality({i \in 1..Len(s) : s[i] = "."})

\* s from after its last "."
AfterLastDot(s) == Slice(s, LastIndex(s, ".") + 1, Len(s))

\* s is a hexadecimal number: one or more hexadecimal digits
IsHexField(s) == s # <<>> /\ \A i \in 1..Len(s) : IsHexDigit(s[i])

\* a workfile basename that cannot be parsed: no ".", fewer than three
\* "."-separated fields after the prefix, or a last field that is no
\* hexadecimal number
CannotParse(base) ==
    \/ ~HasDot(base)
    \/ DotCount(AfterFirstDot(base)) < 2
    \/ ~IsHexField(AfterLastDot(base))

\* a well-formed path of the workfile content type
WorkfilePath(fqn) ==
    /\ ~Malformed(fqn)
    /\ ParseFQN(fqn).ContentType = WorkfileType

\* C32: for a workfile path whose basename cannot be parsed the workfile
\* resolver reports failure, FileSpec returns no resolver and no info and
\* does not fail, and the path may be evicted, not moved and not processed.
C32_UnparsedWorkfileAbsent ==
    (WorkfilePath(call.arg) /\ CannotParse(BaseName(call.arg))) =>
        /\ ~WorkfileParseUniqueFQN(BaseName(call.arg), pid).ok
        /\ call.op = "FileSpec" =>
              (call.res.resolver = "nil" /\ call.res.info = NilInfo
                 /\ ~call.res.panic)
        /\ call.op = "PermToEvict" =>
              (call.res.ok /\ ~call.res.isOld /\ ~call.res.panic)
        /\ call.op = "PermToMove" => ~call.res.ok
        /\ call.op = "PermToProcess" => ~call.res.ok

C32_Witness ==
    /\ call.op = "FileSpec"
    /\ call.arg = BadPidWorkPath
    /\ WorkfilePath(call.arg)
    /\ DotCount(AfterFirstDot(BaseName(call.arg))) = 2
    /\ CannotParse(BaseName(call.arg))
    /\ CannotParse(BaseName(ShortWorkPath))
    /\ CannotParse(BaseName(NoDotWorkPath))
    /\ call.res.resolver = "nil"
    /\ gens # <<>>
    /\ ~CannotParse(BaseName(gens[1].fqn))

\* C33: PermToEvict returns (true, old): for a workfile FQN that Gen
\* returned old is true exactly when the process that asks is not the one
\* that generated it; for an object, EC slice or EC metadata FQN that Gen
\* returned, and for a path FileSpec does not decode, it returns
\* (true, false).
C33_EvictReportsOld ==
    call.op = "PermToEvict" =>
        /\ ~call.res.panic
        /\ \A i \in 1..MaxGens : QueriedGen("PermToEvict", i) =>
              /\ call.res.ok
              /\ gens[i].contentType = WorkfileType =>
                    (call.res.isOld <=> gens[i].pid # pid)
              /\ gens[i].contentType # WorkfileType => ~call.res.isOld
        /\ call.arg \in ForeignPaths => (call.res.ok /\ ~call.res.isOld)

C33_Witness ==
    /\ QueriedGen("PermToEvict", 1)
    /\ gens[1].contentType = WorkfileType
    /\ gens[1].pid = FirstPid
    /\ pid = NextPid
    /\ call.res.ok
    /\ call.res.isOld
    /\ Len(gens) = 2
    /\ gens[2].contentType = ECSliceType

\* FileSpec gives both a resolver and an info, or neither
BothOrNeither(fs) == (fs.resolver = "nil") <=> fs.info.nil

\* C38: FileSpec returns a resolver and an info together or neither of
\* them, for every path, and PermToEvict never reads the fields of an info
\* that is absent.
C38_ResolverAndInfoTogether ==
    /\ \A fqn \in KnownPaths : BothOrNeither(FileSpec(csm, fqn, pid))
    /\ call.op = "FileSpec" => BothOrNeither(call.res)
    /\ call.op = "PermToEvict" => ~call.res.panic

C38_Witness ==
    /\ call.op = "PermToEvict"
    /\ call.arg = NoDotWorkPath
    /\ ~call.res.panic
    /\ FileSpec(csm, call.arg, pid) = NoSpec
    /\ Len(gens) = MaxGens
    /\ \A i \in 1..Len(gens) : ~FileSpec(csm, gens[i].fqn, pid).info.nil
    /\ gens[1].contentType = WorkfileType

\* C39: Gen called with a content type that is not registered does not
\* return an FQN: the call on the absent resolver faults, and no path of
\* that content type is ever made; with a registered content type it
\* returns one.
C39_GenNeedsRegisteredType ==
    /\ [][(call'.op = "Gen" /\ call'.arg \notin DOMAIN csm) =>
            (call'.res.panic /\ call'.res.fqn = <<>> /\ gens' = gens)]_vars
    /\ [](call.op = "Gen" =>
            (call.res.panic <=> Resolver(csm, call.arg) = "nil"))
    /\ [](\A i \in 1..Len(gens) : gens[i].contentType \in DOMAIN csm)

C39_Witness ==
    /\ call.op = "Gen"
    /\ call.arg = UnknownType
    /\ call.res.panic
    /\ Len(gens) = 1
    /\ gens[1].contentType = WorkfileType

OOSAbort == NewAbortedErrorDetails(<<Kind, id>>, "oos")

\* the step is jogger m's return from copyObject for a counted object
CountedReturn(m) == num'[m] = num[m] + 1

\* the step is jogger m's return from copyObject for an object not copied
UncopiedReturn(m) == jpc[m] = "copy" /\ jpc'[m] \in {"walk", "walked"}

\* the jogger's count after the step is a positive multiple of the interval
AtCheckPoint(m) == num'[m] > 0 /\ (num'[m] % throttleNumObjects) = 0

\* C34: an object that was not copied leaves the jogger's count as it is
\* and never ends the walk on the capacity breach; a walk ends on the
\* capacity breach exactly in a step that brings the jogger's count of
\* copied objects to a positive multiple of the interval while the capacity
\* status is over threshold; at any other count a jogger whose copy had no
\* error walks on whatever the capacity status is.
C34_CheckDrivenByCopiedCount ==
    /\ [][\A m \in Mpaths : UncopiedReturn(m) =>
            (num'[m] = num[m] /\ jerr'[m] # CapAbort)]_vars
    /\ [][\A m \in Mpaths :
            (jerr[m] # CapAbort /\ jerr'[m] = CapAbort) <=>
                (CountedReturn(m) /\ AtCheckPoint(m) /\ capErr)]_vars
    /\ [][\A m \in Mpaths :
            (CountedReturn(m) /\ ~AtCheckPoint(m) /\ cur[m].err = Nil) =>
                (jerr'[m] = Nil /\ jpc'[m] = "walk")]_vars

C34_Witness ==
    /\ capErr
    /\ \E m, k \in Mpaths :
          /\ jerr[m] = CapAbort
          /\ num[m] = throttleNumObjects
          /\ num[k] = 1
          /\ jerr[k] = Nil
          /\ jpc[k] = "walk"
          /\ copiedCount = num[m] + num[k]

\* C35: the callback returns nil exactly when the copy's error is nil and
\* no capacity check failed; for a copied object whose capacity check fails
\* it returns the abort error of the capacity breach whatever the copy's
\* error; otherwise an out-of-space error becomes an abort error and any
\* other error is returned as it is.
C35_CallbackResult ==
    /\ [][\A m \in Mpaths : CountedReturn(m) =>
            LET capFail == AtCheckPoint(m) /\ capErr
                e == cur[m].err
            IN  /\ jerr'[m] = Nil <=> (e = Nil /\ ~capFail)
                /\ capFail => jerr'[m] = CapAbort
                /\ (~capFail /\ e = ErrOOS) => jerr'[m] = OOSAbort
                /\ (~capFail /\ e # ErrOOS) => jerr'[m] = e
                /\ jpc'[m] = "walk" <=> jerr'[m] = Nil]_vars
    /\ [][\A m \in Mpaths : UncopiedReturn(m) =>
            /\ jerr'[m] \in {Nil, OOSAbort, ErrOther}
            /\ jpc'[m] = "walk" <=> jerr'[m] = Nil]_vars

C35_Witness ==
    \E m, k \in Mpaths :
        /\ jpc[m] = "check"
        /\ cur[m].copied
        /\ cur[m].err = ErrOOS
        /\ num[m] + 1 = throttleNumObjects
        /\ capErr
        /\ jerr[k] = OOSAbort
        /\ num[k] = 1

\* a jogger inside a per-object call
InCopy(m) == jpc[m] \in {"copy", "inc", "add", "check"}

\* C36: a jogger inside a per-object call holds the buffer it acquired: it
\* has acquired one and not returned it, the buffer is out of the pool and
\* no other jogger has it; a per-object call starts only from the walk of a
\* jogger that holds its buffer, and a jogger that has returned its buffer
\* makes no further step.
C36_CopyUsesHeldBuffer ==
    /\ [](\A m \in Mpaths : InCopy(m) =>
            /\ buf[m] # 0
            /\ buf[m] \in slabInUse
            /\ allocs[m] = 1
            /\ frees[m] = 0
            /\ \A k \in Mpaths \ {m} : buf[k] # buf[m])
    /\ [][\A m \in Mpaths : (~InCopy(m) /\ InCopy(m)') =>
            (jpc[m] = "walk" /\ buf[m] # 0 /\ buf'[m] = buf[m]
               /\ frees[m] = 0)]_vars
    /\ [][\A m \in Mpaths : frees[m] >= 1 =>
            (jpc'[m] = "exited" /\ ~InCopy(m)')]_vars

C36_Witness ==
    /\ \A m \in Mpaths : InCopy(m) /\ num[m] = 1
    /\ \A m \in Mpaths : buf[m] \in slabInUse /\ frees[m] = 0
    /\ \E m, k \in Mpaths : m # k /\ buf[k] # buf[m]

\* the snapshot has been taken and it is empty
EmptySnapshot == rpc \notin {"open", "runJoggers"} /\ availablePaths = {}

\* C37: with an empty snapshot Run launches no jogger, the join can return
\* without a report, and when Run is done the DataMover has been opened and
\* closed, the handler is unregistered and Finish was called once, with a
\* nil error, the counters at zero.
C37_EmptySnapshot ==
    EmptySnapshot =>
        /\ mpathCount = 0
        /\ mpathers = {}
        /\ \A m \in Mpaths : launches[m] = 0 /\ jpc[m] = "idle"
        /\ reports = <<>>
        /\ nrecv = 0
        /\ objects = 0
        /\ bytes = 0
        /\ dm # "new"
        /\ rpc = "waitDone" => ENABLED WaitReturn
        /\ finishCalls <= 1
        /\ rpc = "done" =>
              /\ dm = "closed"
              /\ ~dmRecv
              /\ finishCalls = 1
              /\ finErr = Nil
              /\ xstate = "Finished"

C37_Witness ==
    /\ EmptySnapshot
    /\ rpc = "done"
    /\ finishCalls = 1
    /\ xstate = "Finished"
    /\ mpaths = Mpaths

====
